---------------------------- MODULE Spec2Model ----------------------------
(***************************************************************************)
(* Model of the tracking session of src/app/page.tsx (component Home).     *)
(*                                                                         *)
(* React state lives in two places.  The variables isTracking, elapsedTime,*)
(* totalDistance, laps, ... hold the state as React stores it: a setX call *)
(* (a value or an updater prev => ...) is applied to them in call order.   *)
(* The record view holds the values of the last committed render: these    *)
(* are the values the closures startTracking, stopTracking and recordLap   *)
(* read, and the ones the JSX uses to decide which buttons exist.  Render  *)
(* commits the stored state to view and runs the timer effect.  Refs       *)
(* (useRef) are plain mutable cells, written at once.  The source does not *)
(* fix when React commits a render, so Render is a step of its own: a      *)
(* click, a position callback or a timer callback may run between a state  *)
(* update and the render that shows it, on the closures of the last render.*)
(*                                                                         *)
(* Units: Date.now() is in milliseconds.  Positions are samples on the     *)
(* equator; a coordinate is held as its arc length on the sphere of radius *)
(* R, in metres, so that the haversine distance of two samples is the      *)
(* absolute difference of their longitudes (see calculateDistance).        *)
(* Position.timestamp, currentPosition, lastGpsUpdate, error, the theme    *)
(* and the debug flag only feed the rendering and are left out.            *)
(***************************************************************************)
EXTENDS Integers, Sequences, FiniteSets, TLC

(* ------------------------------ bounds --------------------------------- *)
\* The clock advances at most this many steps of ClockStepMs after Epoch.
MaxClockSteps == 2
\* A session's total distance stays within this many metres.
MaxTotalDistance == 12
\* In a running session the Lap button is pressed while fewer than this many
\* laps are listed.
MaxLaps == 1
\* At most this many position watches exist at once.
MaxWatches == 2
\* At most this many getCurrentPosition requests are in flight.
MaxPendingRequests == 1

\* formatTime is applied to the elapsed seconds 0..MaxFormatSeconds.
MaxFormatSeconds == 7325

(* --------------------------- program constants ------------------------- *)
MsPerSecond == 1000
SecondsPerHour == 3600
SecondsPerMinute == 60
PadWidth == 2
NoiseThreshold == 5

\* Date.now() when the page is mounted, and the granularity of the clock.
Epoch == 100 * MsPerSecond
ClockStepMs == (3 * MsPerSecond) \div 4

\* null of a number | null ref; ids and instants are positive.
Null == -1
\* JavaScript truthiness of a number | null.
Truthy(x) == x # Null /\ x # 0
\* Number(x) of a number | null in arithmetic: null converts to 0.
ToNumber(x) == IF x = Null THEN 0 ELSE x

\* The longitudes (metres of arc east of the origin) a sample may have.
Eastings == {0, 5, 6}
Positions == {[latitude |-> 0, longitude |-> x] : x \in Eastings}

Abs(x) == IF x < 0 THEN -x ELSE x

\* calculateDistance: with both latitudes 0, a = sin^2(dLambda/2),
\* c = 2 atan2(sqrt a, sqrt(1-a)) = |dLambda| and R * c is the arc length
\* between the two longitudes.
calculateDistance(pos1, pos2) == Abs(pos2.longitude - pos1.longitude)

(* ------------------------------ formatTime ----------------------------- *)
\* JavaScript's %: the remainder has the sign of the dividend.
JsRem(a, b) == IF a >= 0 THEN a % b ELSE -((-a) % b)
\* Math.floor(a / b) for b > 0.
FloorDiv(a, b) == a \div b
\* padStart without the padding.
padStart_None(s) == s

\* n.toString().padStart(2, "0")
padStart(s) == IF Len(s) < PadWidth THEN "0" \o s ELSE s

formatTime(seconds) ==
    LET hrs == FloorDiv(seconds, SecondsPerHour)
        mins == FloorDiv(JsRem(seconds, SecondsPerHour), SecondsPerMinute)
        secs == JsRem(seconds, SecondsPerMinute)
    IN  IF hrs > 0
        THEN padStart(ToString(hrs)) \o ":" \o padStart(ToString(mins))
                 \o ":" \o padStart(ToString(secs))
        ELSE padStart(ToString(mins)) \o ":" \o padStart(ToString(secs))

(* ------------------------------- state --------------------------------- *)
VARIABLES
    isTracking,             \* useState(false)
    hasLocationPermission,  \* useState(false)
    isLoading,              \* useState(false)
    elapsedTime,            \* useState(0)
    totalDistance,          \* useState(0)
    laps,                   \* useState<Lap[]>([])
    view,                   \* the state values of the last committed render
    watchIdRef,             \* useRef<number | null>(null)
    lastPositionRef,        \* useRef<Position | null>(null): <<>> or <<p>>
    startTimeRef,           \* useRef<number | null>(null)
    timerRef,               \* useRef<NodeJS.Timeout | null>(null)
    lastLapDistanceRef,     \* useRef(0)
    lastLapTimeRef,         \* useRef(0)
    now,                    \* Date.now()
    watches,                \* ids of the active geolocation watches
    intervals,              \* ids of the active setInterval timers
    pendingRequests         \* getCurrentPosition promises not yet settled

vars == <<isTracking, hasLocationPermission, isLoading, elapsedTime,
          totalDistance, laps, view, watchIdRef, lastPositionRef,
          startTimeRef, timerRef, lastLapDistanceRef, lastLapTimeRef,
          now, watches, intervals, pendingRequests>>

stateVars == <<isTracking, hasLocationPermission, isLoading, elapsedTime,
               totalDistance, laps>>
refVars == <<watchIdRef, lastPositionRef, startTimeRef, timerRef,
             lastLapDistanceRef, lastLapTimeRef>>
envVars == <<now, watches, intervals, pendingRequests>>

\* What a render reads from the stored state.
Snapshot ==
    [isTracking |-> isTracking,
     hasLocationPermission |-> hasLocationPermission,
     isLoading |-> isLoading,
     elapsedTime |-> elapsedTime,
     totalDistance |-> totalDistance,
     laps |-> laps]

\* The page after its first render: the state's initial values, the refs'
\* initial values, the timer effect run once with isTracking = false.
Init ==
    /\ isTracking = FALSE
    /\ hasLocationPermission = FALSE
    /\ isLoading = FALSE
    /\ elapsedTime = 0
    /\ totalDistance = 0
    /\ laps = <<>>
    /\ view = [isTracking |-> FALSE, hasLocationPermission |-> FALSE,
               isLoading |-> FALSE, elapsedTime |-> 0, totalDistance |-> 0,
               laps |-> <<>>]
    /\ watchIdRef = Null
    /\ lastPositionRef = <<>>
    /\ startTimeRef = Null
    /\ timerRef = Null
    /\ lastLapDistanceRef = 0
    /\ lastLapTimeRef = 0
    /\ now = Epoch
    /\ watches = {}
    /\ intervals = {}
    /\ pendingRequests = 0

\* The id a new watch or timer gets: one no live handle and no ref holds.
FreshId(live, held) ==
    CHOOSE n \in 1..(Cardinality(live) + 2) : n \notin live /\ n # held

(* ----------------------- requestLocationPermission --------------------- *)
\* Lines 125-141: show the spinner and ask the browser for one position.
requestLocationPermission ==
    /\ pendingRequests < MaxPendingRequests
    /\ isLoading' = TRUE
    /\ pendingRequests' = pendingRequests + 1
    /\ UNCHANGED <<isTracking, hasLocationPermission, elapsedTime,
                   totalDistance, laps, view, now, watches, intervals>>
    /\ UNCHANGED refVars

\* Lines 143-144: the awaited promise resolved.
PermissionGranted ==
    /\ pendingRequests > 0
    /\ pendingRequests' = pendingRequests - 1
    /\ hasLocationPermission' = TRUE
    /\ isLoading' = FALSE
    /\ UNCHANGED <<isTracking, elapsedTime, totalDistance, laps, view, now,
                   watches, intervals>>
    /\ UNCHANGED refVars

\* Lines 145-164: the awaited promise rejected (denied, unavailable, timeout).
PermissionDenied ==
    /\ pendingRequests > 0
    /\ pendingRequests' = pendingRequests - 1
    /\ isLoading' = FALSE
    /\ UNCHANGED <<isTracking, hasLocationPermission, elapsedTime,
                   totalDistance, laps, view, now, watches, intervals>>
    /\ UNCHANGED refVars

(* ----------------------------- startTracking --------------------------- *)
\* beginSession without lines 179-180: the lap boundary survives a restart.
beginSession_KeepsLapBoundary ==
    LET id == FreshId(watches, watchIdRef)
    IN  /\ Cardinality(watches) < MaxWatches
        /\ isTracking' = TRUE
        /\ elapsedTime' = 0
        /\ totalDistance' = 0
        /\ laps' = <<>>
        /\ lastPositionRef' = <<>>
        /\ startTimeRef' = now
        /\ watches' = watches \cup {id}
        /\ watchIdRef' = id
        /\ UNCHANGED <<hasLocationPermission, isLoading, view, timerRef, now,
                       intervals, pendingRequests, lastLapDistanceRef,
                       lastLapTimeRef>>

\* Lines 173-215, reached when the closure's hasLocationPermission is true.
beginSession ==
    LET id == FreshId(watches, watchIdRef)
    IN  /\ Cardinality(watches) < MaxWatches
        /\ isTracking' = TRUE
        /\ elapsedTime' = 0
        /\ totalDistance' = 0
        /\ laps' = <<>>
        /\ lastPositionRef' = <<>>
        /\ startTimeRef' = now
        /\ lastLapDistanceRef' = 0
        /\ lastLapTimeRef' = 0
        /\ watches' = watches \cup {id}
        /\ watchIdRef' = id
        /\ UNCHANGED <<hasLocationPermission, isLoading, view, timerRef, now,
                       intervals, pendingRequests>>

\* startTracking without lines 168-171.
startTracking_NoGate == beginSession

\* Lines 167-216.
startTracking ==
    IF ~view.hasLocationPermission
    THEN requestLocationPermission
    ELSE beginSession

(* --------------------- watchPosition success callback ------------------ *)
\* TotalAfterSample with prev - distance for prev + distance.
TotalAfterSample_Subtracts(total, last, newPosition) ==
    IF last # <<>>
    THEN LET distance == calculateDistance(last[1], newPosition)
         IN  IF distance > NoiseThreshold THEN total - distance ELSE total
    ELSE total

\* TotalAfterSample with distance >= 5 for distance > 5.
TotalAfterSample_AtLeast(total, last, newPosition) ==
    IF last # <<>>
    THEN LET distance == calculateDistance(last[1], newPosition)
         IN  IF distance >= NoiseThreshold THEN total + distance ELSE total
    ELSE total

\* TotalAfterSample measuring the first sample from the origin.
TotalAfterSample_NoBaseline(total, last, newPosition) ==
    LET from == IF last # <<>> THEN last[1]
                ELSE [latitude |-> 0, longitude |-> 0]
        distance == calculateDistance(from, newPosition)
    IN  IF distance > NoiseThreshold THEN total + distance ELSE total

\* Lines 193-202: the total after a sample, given the stored position.
TotalAfterSample(total, last, newPosition) ==
    IF last # <<>>
    THEN LET distance == calculateDistance(last[1], newPosition)
         IN  IF distance > NoiseThreshold THEN total + distance ELSE total
    ELSE total

\* Line 204: the stored position after a sample.
LastPositionAfterSample(last, newPosition) == <<newPosition>>

PositionCallback(id, newPosition) ==
    /\ id \in watches
    /\ TotalAfterSample(totalDistance, lastPositionRef, newPosition)
           <= MaxTotalDistance
    /\ totalDistance' =
           TotalAfterSample(totalDistance, lastPositionRef, newPosition)
    /\ lastPositionRef' = LastPositionAfterSample(lastPositionRef, newPosition)
    /\ UNCHANGED <<isTracking, hasLocationPermission, isLoading, elapsedTime,
                   laps, view, watchIdRef, startTimeRef, timerRef,
                   lastLapDistanceRef, lastLapTimeRef>>
    /\ UNCHANGED envVars

(* ------------------------------- recordLap ----------------------------- *)
\* recordLapRuns without the check of the start instant.
recordLapRuns_TrackingOnly == view.isTracking

\* Line 235, negated: the closure's isTracking and the start instant.
recordLapRuns == view.isTracking /\ Truthy(startTimeRef)

\* newLap with the cumulative values stored as the lap's own.
newLap_Cumulative ==
    [lapNumber |-> Len(view.laps) + 1,
     time |-> formatTime(view.elapsedTime),
     distance |-> view.totalDistance,
     lapTime |-> formatTime(view.elapsedTime),
     lapDistance |-> view.totalDistance]

\* Lines 237-248, from the closure's elapsedTime, totalDistance and laps.
newLap ==
    LET currentTime == view.elapsedTime
        currentDistance == view.totalDistance
        lapTime == currentTime - lastLapTimeRef
        lapDistance == currentDistance - lastLapDistanceRef
    IN  [lapNumber |-> Len(view.laps) + 1,
         time |-> formatTime(currentTime),
         distance |-> currentDistance,
         lapTime |-> formatTime(lapTime),
         lapDistance |-> lapDistance]

\* Lines 234-253 on laps and the two lap-boundary refs.
recordLap ==
    IF recordLapRuns
    THEN /\ laps' = Append(laps, newLap)
         /\ lastLapDistanceRef' = view.totalDistance
         /\ lastLapTimeRef' = view.elapsedTime
    ELSE UNCHANGED <<laps, lastLapDistanceRef, lastLapTimeRef>>

(* ------------------------------ stopTracking --------------------------- *)
\* stopRecordsLap evaluated after line 229 cleared the start instant.
stopRecordsLap_AfterClear == view.isTracking /\ Truthy(Null)

\* Line 220: whether stop records a final lap.
stopRecordsLap == view.isTracking /\ Truthy(startTimeRef)

\* stopTracking without line 229: the start instant survives the stop.
stopTracking_KeepsStart ==
    /\ IF stopRecordsLap
       THEN recordLap
       ELSE UNCHANGED <<laps, lastLapDistanceRef, lastLapTimeRef>>
    /\ isTracking' = FALSE
    /\ watches' = IF watchIdRef # Null THEN watches \ {watchIdRef} ELSE watches
    /\ watchIdRef' = Null
    /\ lastPositionRef' = <<>>
    /\ UNCHANGED <<hasLocationPermission, isLoading, elapsedTime,
                   totalDistance, view, timerRef, now, intervals,
                   pendingRequests, startTimeRef>>

\* Lines 218-232.
stopTracking ==
    /\ IF stopRecordsLap
       THEN recordLap
       ELSE UNCHANGED <<laps, lastLapDistanceRef, lastLapTimeRef>>
    /\ isTracking' = FALSE
    /\ watches' = IF watchIdRef # Null THEN watches \ {watchIdRef} ELSE watches
    /\ watchIdRef' = Null
    /\ startTimeRef' = Null
    /\ lastPositionRef' = <<>>
    /\ UNCHANGED <<hasLocationPermission, isLoading, elapsedTime,
                   totalDistance, view, timerRef, now, intervals,
                   pendingRequests>>

(* ------------------------------- the timer ----------------------------- *)
\* ElapsedAt with Math.round for Math.floor.
ElapsedAt_Rounds(t, start) ==
    FloorDiv(2 * (t - ToNumber(start)) + MsPerSecond, 2 * MsPerSecond)

\* Line 110: the interval callback; a null start instant converts to 0.
ElapsedAt(t, start) == FloorDiv(t - ToNumber(start), MsPerSecond)

TimerCallback(id) ==
    /\ id \in intervals
    /\ elapsedTime' = ElapsedAt(now, startTimeRef)
    /\ UNCHANGED <<isTracking, hasLocationPermission, isLoading,
                   totalDistance, laps, view>>
    /\ UNCHANGED refVars
    /\ UNCHANGED envVars

\* Lines 107-122, run by a render in which isTracking changed: the cleanup
\* of the previous run (lines 119-121), then the effect body.
timerEffect ==
    LET cleaned == IF Truthy(timerRef) THEN intervals \ {timerRef}
                   ELSE intervals
        id == FreshId(cleaned, timerRef)
    IN  IF isTracking /\ Truthy(startTimeRef)
        THEN /\ intervals' = cleaned \cup {id}
             /\ timerRef' = id
        ELSE /\ intervals' = cleaned
             /\ timerRef' = Null

\* A render commits the stored state; the effect runs when its dependency
\* [isTracking] differs from the previous render's.
Render ==
    /\ view # Snapshot
    /\ view' = Snapshot
    /\ IF isTracking # view.isTracking
       THEN timerEffect
       ELSE UNCHANGED <<intervals, timerRef>>
    /\ UNCHANGED stateVars
    /\ UNCHANGED <<watchIdRef, lastPositionRef, startTimeRef,
                   lastLapDistanceRef, lastLapTimeRef, now, watches,
                   pendingRequests>>

(* ------------------------------ the buttons ---------------------------- *)
\* Lines 350-358: "Enable GPS", rendered without permission, disabled
\* while loading.
ClickEnableGps ==
    /\ ~view.hasLocationPermission
    /\ ~view.isLoading
    /\ requestLocationPermission

\* Lines 392-399: Start is rendered when not tracking.
ClickStart ==
    /\ view.hasLocationPermission
    /\ ~view.isTracking
    /\ startTracking

\* Lines 402-408: Lap is rendered when tracking.
ClickLap ==
    /\ view.hasLocationPermission
    /\ view.isTracking
    /\ Len(laps) < MaxLaps \/ ~isTracking
    /\ recordLap
    /\ UNCHANGED <<isTracking, hasLocationPermission, isLoading, elapsedTime,
                   totalDistance, view, watchIdRef, lastPositionRef,
                   startTimeRef, timerRef>>
    /\ UNCHANGED envVars

\* Lines 409-415: Stop is rendered when tracking.
ClickStop ==
    /\ view.hasLocationPermission
    /\ view.isTracking
    /\ stopTracking

\* Date.now() moves on.
AdvanceClock ==
    /\ now < Epoch + MaxClockSteps * ClockStepMs
    /\ now' = now + ClockStepMs
    /\ UNCHANGED stateVars
    /\ UNCHANGED view
    /\ UNCHANGED refVars
    /\ UNCHANGED <<watches, intervals, pendingRequests>>

Ingest == \E id \in watches, p \in Positions : PositionCallback(id, p)
Tick == \E id \in intervals : TimerCallback(id)

Next ==
    \/ ClickEnableGps
    \/ PermissionGranted
    \/ PermissionDenied
    \/ ClickStart
    \/ ClickLap
    \/ ClickStop
    \/ Ingest
    \/ Tick
    \/ Render
    \/ AdvanceClock

Spec == Init /\ [][Next]_vars


(* --------------------- formatTime on long sessions --------------------- *)
\* A session started at Epoch that has been running for some whole number
\* of seconds, rendered, with one watch and the interval active, no sample
\* and no lap yet.  recordLap applies formatTime to the rendered elapsed
\* time (lines 244 and 246).
InitFormat ==
    \E seconds \in 0..MaxFormatSeconds :
        /\ isTracking = TRUE
        /\ hasLocationPermission = TRUE
        /\ isLoading = FALSE
        /\ elapsedTime = seconds
        /\ totalDistance = 0
        /\ laps = <<>>
        /\ view = [isTracking |-> TRUE, hasLocationPermission |-> TRUE,
                   isLoading |-> FALSE, elapsedTime |-> seconds,
                   totalDistance |-> 0, laps |-> <<>>]
        /\ watchIdRef = 1
        /\ lastPositionRef = <<>>
        /\ startTimeRef = Epoch
        /\ timerRef = 1
        /\ lastLapDistanceRef = 0
        /\ lastLapTimeRef = 0
        /\ now = Epoch + seconds * MsPerSecond
        /\ watches = {1}
        /\ intervals = {1}
        /\ pendingRequests = 0

NextFormat ==
    \/ ClickLap
    \/ ClickStop

SpecFormat == InitFormat /\ [][NextFormat]_vars

(* ------------------------------- claims -------------------------------- *)
East(x) == [latitude |-> 0, longitude |-> x]

\* The seconds a lap's formatted time stands for (laps hold formatTime's
\* strings); session times stay below MaxSessionSeconds.
MaxSessionSeconds == (MaxClockSteps * ClockStepMs) \div MsPerSecond + 1
parseTime(s) == CHOOSE n \in 0..MaxSessionSeconds : formatTime(n) = s
cumulativeTime(n) == IF n = 0 THEN 0 ELSE parseTime(laps[n].time)
cumulativeDistance(n) == IF n = 0 THEN 0 ELSE laps[n].distance

\* C1 (as claimed): a sample at distance d <= 5 m from the stored position
\* leaves the stored position unchanged; it advances only when d > 5 m.
C1_AnchorRetainedOnReject ==
    [][\A id \in watches, p \in Positions :
          (/\ PositionCallback(id, p)
           /\ lastPositionRef # <<>>
           /\ calculateDistance(lastPositionRef[1], p) <= NoiseThreshold)
          => lastPositionRef' = lastPositionRef]_vars

\* C2: within a session totalDistance never decreases: every step other
\* than a start leaves it at least as large as it was.
C2_Monotonic ==
    [][~ClickStart => totalDistance' >= totalDistance]_vars

C2_Witness == isTracking /\ totalDistance >= 12

\* C3: a sample at distance d from the stored position leaves the total
\* unchanged when d <= 5 (5 included) and adds exactly d when d > 5.
C3_NoiseFloor ==
    [][\A id \in watches, p \in Positions :
          (PositionCallback(id, p) /\ lastPositionRef # <<>>)
          => LET d == calculateDistance(lastPositionRef[1], p)
             IN  IF d <= 5
                 THEN totalDistance' = totalDistance
                 ELSE totalDistance' = totalDistance + d]_vars

C3_Witness ==
    /\ isTracking
    /\ totalDistance = 6
    /\ lastPositionRef = <<East(5)>>

\* C4: a start leaves no stored position, and a sample that finds no stored
\* position never changes totalDistance, in every session.
C4_FirstSampleBaseline ==
    [][/\ ClickStart => lastPositionRef' = <<>>
       /\ \A id \in watches, p \in Positions :
              (PositionCallback(id, p) /\ lastPositionRef = <<>>)
              => (totalDistance' = totalDistance
                  /\ lastPositionRef' = <<p>>)]_vars

C4_Witness ==
    /\ isTracking
    /\ view.laps # <<>>
    /\ laps = <<>>
    /\ lastPositionRef \in {<<East(5)>>, <<East(6)>>}
    /\ totalDistance = 0

\* C5: every lap's time and distance deltas add up to its cumulative values
\* from the previous lap's (0 before the first lap), and the lap-boundary
\* refs hold the cumulative values of the last lap (0, 0 with no lap).
C5_LapDeltaCorrectness ==
    /\ \A n \in 1..Len(laps) :
          /\ parseTime(laps[n].lapTime) + cumulativeTime(n - 1)
                 = cumulativeTime(n)
          /\ laps[n].lapDistance + cumulativeDistance(n - 1)
                 = cumulativeDistance(n)
    /\ lastLapTimeRef = cumulativeTime(Len(laps))
    /\ lastLapDistanceRef = cumulativeDistance(Len(laps))

C5_Witness ==
    /\ Len(laps) >= 2
    /\ laps[1].distance > 0
    /\ laps[1].time # "00:00"
    /\ laps[2].lapDistance > 0

\* C6: a stop issued while the session is running appends exactly one lap,
\* for the segment since the last lap boundary, in the step that ends the
\* session.
C6_StopFinalizesLap ==
    [][(ClickStop /\ isTracking)
       => /\ ~isTracking'
          /\ Len(laps') = Len(laps) + 1
          /\ SubSeq(laps', 1, Len(laps)) = laps
          /\ LET lap == laps'[Len(laps')]
             IN  /\ lap.distance = view.totalDistance
                 /\ lap.lapDistance = view.totalDistance - lastLapDistanceRef
                 /\ lap.time = formatTime(view.elapsedTime)
                 /\ lap.lapTime
                        = formatTime(view.elapsedTime - lastLapTimeRef)]_vars

C6_Witness ==
    /\ ~isTracking
    /\ startTimeRef = Null
    /\ view.isTracking
    /\ Len(laps) = Len(view.laps) + 1

\* C7: a stop issued while the session is not running appends no lap and
\* leaves elapsed time, total distance and the laps unchanged.
C7_IdempotentStop ==
    [][(ClickStop /\ ~isTracking)
       => UNCHANGED <<laps, elapsedTime, totalDistance, lastLapTimeRef,
                      lastLapDistanceRef>>]_vars

\* The Stop button is still rendered after a stop.
C7_Witness ==
    /\ ~isTracking
    /\ ENABLED ClickStop
    /\ laps # <<>>

\* C8: a start from a session that is not running leaves the session
\* running from now, with elapsed 0, no laps, lap boundaries 0, total 0 and
\* no stored position.
C8_StartResets ==
    [][(ClickStart /\ ~isTracking)
       => /\ isTracking'
          /\ startTimeRef' = now
          /\ elapsedTime' = 0
          /\ laps' = <<>>
          /\ lastLapTimeRef' = 0
          /\ lastLapDistanceRef' = 0
          /\ totalDistance' = 0
          /\ lastPositionRef' = <<>>]_vars

\* A second session just started over what the first one left rendered.
C8_Witness ==
    /\ isTracking
    /\ ~view.isTracking
    /\ view.laps # <<>>
    /\ view.totalDistance > 0
    /\ view.elapsedTime > 0
    /\ laps = <<>>
    /\ totalDistance = 0
    /\ elapsedTime = 0
    /\ lastLapDistanceRef = 0
    /\ startTimeRef = now

\* C9 (as claimed): a start issued while the session is running changes
\* neither elapsed time, total distance, laps nor the start instant, and
\* creates no further position watch.
C9_StartWhileRunningIsNoOp ==
    [][(ClickStart /\ isTracking)
       => UNCHANGED <<elapsedTime, totalDistance, laps, startTimeRef,
                      watches>>]_vars

\* C10: a lap command issued while the session is not running appends no
\* lap and leaves the lap boundaries unchanged.
C10_LapIgnoredWhenNotRunning ==
    [][(ClickLap /\ ~isTracking)
       => UNCHANGED <<laps, lastLapTimeRef, lastLapDistanceRef>>]_vars

\* The Lap button is still rendered after a stop.
C10_Witness ==
    /\ ~isTracking
    /\ ENABLED ClickLap
    /\ ~recordLapRuns

\* C11 (as claimed): once the session is stopped, elapsed time keeps its
\* value until the next start, whatever callbacks run in between.
C11_ElapsedFrozenWhenStopped ==
    [][(~isTracking /\ ~isTracking') => elapsedTime' = elapsedTime]_vars

\* C12 (as claimed): a stop leaves totalDistance and the recorded laps as
\* they are, and once the session is stopped no step changes totalDistance
\* until the next start.
C12_TotalFrozenAfterStop ==
    [][/\ ClickStop
          => (totalDistance' = totalDistance
              /\ SubSeq(laps', 1, Len(laps)) = laps)
       /\ (~isTracking /\ ~isTracking')
          => totalDistance' = totalDistance]_vars

\* C13 (as claimed): the i-th lap of the list has lapNumber i, and a lap or
\* stop command only appends to the list.
C13_LapsNumberedAppendOnly ==
    [][/\ \A i \in 1..Len(laps') : laps'[i].lapNumber = i
       /\ (ClickLap \/ ClickStop)
          => (Len(laps') >= Len(laps)
              /\ SubSeq(laps', 1, Len(laps)) = laps)]_vars

\* C14 (as claimed): the cumulative distance of a lap appended by a lap or
\* stop command is totalDistance as stored when the command is processed.
C14_LapRecordsCurrentTotal ==
    [][((ClickLap \/ ClickStop) /\ Len(laps') = Len(laps) + 1)
       => laps'[Len(laps')].distance = totalDistance]_vars

\* C19 (as claimed): at most one position watch is active, watchIdRef holds
\* its id, and a watch is active exactly while the session is running.
C19_OneWatchWhileRunning ==
    /\ Cardinality(watches) <= 1
    /\ watches = (IF isTracking THEN {watchIdRef} ELSE {})

\* C15: while the session is running, a timer callback at time now sets
\* elapsed to the whole seconds between the session's start instant and
\* now, and changes neither total distance, laps nor the lap boundaries.
C15_Tick ==
    [][\A id \in intervals :
          (TimerCallback(id) /\ isTracking)
          => /\ startTimeRef # Null
             /\ elapsedTime' * 1000 <= now - startTimeRef
             /\ now - startTimeRef < (elapsedTime' + 1) * 1000
             /\ UNCHANGED <<totalDistance, laps, lastLapTimeRef,
                            lastLapDistanceRef>>]_vars

\* 1500 ms after the start the callback has set elapsed to 1.
C15_Witness ==
    /\ isTracking
    /\ startTimeRef # Null
    /\ now - startTimeRef = 1500
    /\ elapsedTime = 1

\* C16: every lap of the list has a lap time and a lap distance >= 0.
C16_LapDeltasNonNegative ==
    \A n \in 1..Len(laps) :
        /\ laps[n].lapDistance >= 0
        /\ \E k \in 0..MaxSessionSeconds : laps[n].lapTime = formatTime(k)

C16_Witness ==
    /\ isTracking
    /\ Len(laps) = 1
    /\ laps[1].lapDistance = 6
    /\ laps[1].lapTime = "00:01"

\* What a session consists of, for C20.
sessionVars == <<isTracking, watches, watchIdRef, startTimeRef, elapsedTime,
                 totalDistance, laps>>

\* C20: without permission no session exists (tracking off, no watch,
\* elapsed, total and laps untouched); startTracking run on a render without
\* permission can only request the permission; and the step that grants the
\* permission starts no session.
C20_PermissionGate ==
    /\ [](~hasLocationPermission
          => (/\ ~isTracking
              /\ watches = {}
              /\ elapsedTime = 0
              /\ totalDistance = 0
              /\ laps = <<>>))
    /\ [](~view.hasLocationPermission
          => ~ENABLED (startTracking /\ ~UNCHANGED sessionVars))
    /\ [][PermissionGranted => UNCHANGED sessionVars]_vars

\* The permission was granted and nothing else has happened.
C20_Witness ==
    /\ hasLocationPermission
    /\ ~view.hasLocationPermission
    /\ pendingRequests = 0
    /\ ~isTracking
    /\ watches = {}

\* C17: for seconds >= 0 formatTime gives MM:SS below 3600 and HH:MM:SS from
\* 3600 on, with hours = seconds div 3600, minutes = (seconds mod 3600)
\* div 60, seconds = seconds mod 60, each padded to two digits.  Checked on
\* the time of the last lap, whose seconds lastLapTimeRef holds.
TwoDigits(n) == IF n < 10 THEN "0" \o ToString(n) ELSE ToString(n)

C17_FormatTime ==
    laps # <<>>
    => LET seconds == lastLapTimeRef
           time == laps[Len(laps)].time
           hh == TwoDigits(seconds \div 3600)
           mm == TwoDigits((seconds % 3600) \div 60)
           ss == TwoDigits(seconds % 60)
       IN  /\ seconds >= 0
           /\ IF seconds < 3600
              THEN time = mm \o ":" \o ss /\ Len(time) = 5
              ELSE time = hh \o ":" \o mm \o ":" \o ss /\ Len(time) = 8

\* 65 seconds were formatted as 01:05.
C17_Witness ==
    /\ laps # <<>>
    /\ lastLapTimeRef = 65
    /\ laps[Len(laps)].time = "01:05"

=============================================================================
